---- MODULE Spec2Model ----
(***************************************************************************)
(* flaskext.markdown: the Markdown wrapper class that holds one Markdown   *)
(* engine, registers the 'markdown' and 'safe_markdown' Jinja filters on   *)
(* the application's environment, converts (and bleaches) text, and        *)
(* forwards extension registrations to the engine.                         *)
(*                                                                         *)
(* A Markdown source text is a sequence of source tokens; an HTML string   *)
(* is a sequence of elements [k, n, h, t]: kind ("tag" for live markup,    *)
(* "esc" for markup escaped to text, "text" for bare text), tag name,      *)
(* href attribute value ("" when absent) and text content.                 *)
(***************************************************************************)
EXTENDS Integers, Sequences, FiniteSets, TLC

VARIABLES
    instances,  \* the Markdown wrapper objects constructed so far, in order
    filters,    \* app.jinja_env.filters: filter name -> index of the instance whose bound method is registered (0: no entry)
    ret,        \* the last completed call: its arguments, what it returned or raised
    pc,         \* per thread: position inside a running markdown filter call
    arg,        \* per thread: the stream the running call was given
    html,       \* per thread: the local variable html of convert
    touched     \* per thread: another thread used the engine between this call's reset() and convert()

vars == <<instances, filters, ret, pc, arg, html, touched>>

(* ------------------------------ bounds --------------------------------- *)
MaxInst == 2        \* wrapper instances constructed on one app
MaxLen == 1         \* tokens in a source text
MaxExt == 2         \* extension registrations per engine

(* ----------------------------- constants ------------------------------- *)
MARKDOWN_TAGS ==
    {"a", "abbr", "acronym", "b", "blockquote", "em", "i", "li", "ol",
     "strong", "ul", "p", "h1", "h2", "h3", "pre", "code", "hr"}

\* bleach.clean's own defaults, used for every keyword the wrapper does not pass
BLEACH_ALLOWED_TAGS ==
    {"a", "abbr", "acronym", "b", "blockquote", "code", "em", "i", "li",
     "ol", "strong", "ul"}
BLEACH_ALLOWED_ATTRIBUTES ==
    {<<"a", "href">>, <<"a", "title">>, <<"abbr", "title">>, <<"acronym", "title">>}

FilterNames == {"markdown", "safe_markdown"}
Threads == {1, 2}
RefId == "x"

\* output_format values markdown.Markdown accepts; any other raises
OUTPUT_FORMATS == {"html4", "xhtml1", "html5"}

(* ------------------------------ inputs --------------------------------- *)
SeqsUpTo(T, n) == UNION {[1..k -> T] : k \in 0..n}

\* "txt": a plain paragraph; "script": a raw <script> element; "def": the
\* reference definition  [x]: url ; "ref": the reference link [x];
\* "macro": syntax only the custom extension MacroExt recognises
FilterStreams == SeqsUpTo({"txt", "script"}, MaxLen)
ConvStreams == SeqsUpTo({"txt", "script", "def", "ref"}, MaxLen)
ExtStreams == SeqsUpTo({"txt", "macro"}, MaxLen)
ConcStreams == SeqsUpTo({"def", "ref"}, MaxLen)

\* the bleach_attributes argument: not given (None), or a dict
NoneArg == [given |-> FALSE, dict |-> <<>>]
EmptyDict == [given |-> TRUE, dict |-> <<>>]
AttrsOnly == [given |-> TRUE, dict |-> [attributes |-> {<<"a", "title">>}]]
TagsStrip == [given |-> TRUE, dict |-> [tags |-> {"a", "b"}, strip |-> TRUE]]
BleachArgs == {NoneArg, EmptyDict, AttrsOnly, TagsStrip}

\* **markdown_options
OptionArgs ==
    {[output_format |-> "xhtml1", auto_escape |-> FALSE],
     [output_format |-> "xhtml1", auto_escape |-> TRUE],
     [output_format |-> "bogus", auto_escape |-> FALSE]}

ExtClasses == {"MacroExt", "PlainExt"}
ConfigArgs == {"None", "cfg"}

(* ------------------------- the Markdown engine ------------------------- *)
Elem(k, n, h, t) == [k |-> k, n |-> n, h |-> h, t |-> t]

\* md.Markdown(**markdown_options): unknown keywords (auto_escape) are ignored
EngineOk(opts) == opts.output_format \in OUTPUT_FORMATS
NewEngine == [references |-> {}, registeredExtensions |-> <<>>]

\* Markdown.reset(): clears the per-document state, keeps the extensions
MdReset(e) == [e EXCEPT !.references = {}]

IsDef(tok) == tok = "def"
IsBlock(tok) == tok # "def"
HasDef(stream) == \E i \in 1..Len(stream) : IsDef(stream[i])
MacroInstalled(e) ==
    \E i \in 1..Len(e.registeredExtensions) : e.registeredExtensions[i].cls = "MacroExt"

RenderTok(tok, refs, macro) ==
    CASE tok = "txt" -> Elem("tag", "p", "", "text")
      [] tok = "script" -> Elem("tag", "script", "", "alert(1)")
      [] tok = "ref" -> IF RefId \in refs THEN Elem("tag", "a", "url", "x")
                        ELSE Elem("tag", "p", "", "[x]")
      [] tok = "macro" -> IF macro THEN Elem("tag", "p", "", "expanded")
                          ELSE Elem("tag", "p", "", "{macro}")
      [] OTHER -> Elem("tag", "p", "", tok)

\* Markdown.convert(source): reference definitions are collected into
\* self.references first, then every block is rendered against them
MdConvert(e, stream) ==
    LET refs == e.references \cup (IF HasDef(stream) THEN {RefId} ELSE {})
        blocks == SelectSeq(stream, IsBlock)
    IN  [engine |-> [e EXCEPT !.references = refs],
         html |-> [i \in 1..Len(blocks) |-> RenderTok(blocks[i], refs, MacroInstalled(e))]]

\* Markdown.registerExtensions(extensions, configs): each extension
\* instance installs itself in the engine (extendMarkdown)
MdRegisterExtensions(e, extensions, configs) ==
    [e EXCEPT !.registeredExtensions = @ \o extensions]

(* ------------------------------- bleach -------------------------------- *)
AllowedTags(kw) == IF "tags" \in DOMAIN kw THEN kw.tags ELSE BLEACH_ALLOWED_TAGS
AllowedAttrs(kw) ==
    IF "attributes" \in DOMAIN kw THEN kw.attributes ELSE BLEACH_ALLOWED_ATTRIBUTES
Strip(kw) == IF "strip" \in DOMAIN kw THEN kw.strip ELSE FALSE

CleanElem(el, kw) ==
    IF el.k # "tag" THEN el
    ELSE IF el.n \in AllowedTags(kw)
         THEN [el EXCEPT !.h = IF <<el.n, "href">> \in AllowedAttrs(kw) THEN @ ELSE ""]
         ELSE IF Strip(kw) THEN Elem("text", "", "", el.t)
              ELSE [el EXCEPT !.k = "esc"]

\* bleach.clean(html, **kw)
BleachClean(h, kw) == [i \in 1..Len(h) |-> CleanElem(h[i], kw)]

(* ----------------------------- the wrapper ----------------------------- *)
\* markupsafe.escape on a source text: markup becomes literal text (the
\* escaping the class docstring promises for auto_escape=True)
EscapeTok(tok) == IF tok = "script" THEN "&lt;script&gt;" ELSE tok
Escape(stream) == [i \in 1..Len(stream) |-> EscapeTok(stream[i])]

\* mutant: the defaults with the caller's mapping layered on top
BuildPolicyMerged(a) ==
    LET d == [tags |-> MARKDOWN_TAGS]
    IN  [k \in DOMAIN d \cup DOMAIN a.dict |-> IF k \in DOMAIN a.dict THEN a.dict[k] ELSE d[k]]

\* self.bleach_attributes = bleach_attributes or {'tags': MARKDOWN_TAGS}
Truthy(a) == a.given /\ DOMAIN a.dict # {}
BuildPolicy(a) == IF Truthy(a) THEN a.dict ELSE [tags |-> MARKDOWN_TAGS]

\* mutant: plain assignment  filters[name] = value
SetItem(f, name, i) == [f EXCEPT ![name] = i]

\* dict.setdefault(name, value)
SetDefault(f, name, i) == IF f[name] = 0 THEN [f EXCEPT ![name] = i] ELSE f

\* the two registrations of __init__
RegisterFilters(f, i) == SetDefault(SetDefault(f, "markdown", i), "safe_markdown", i)

NoCall ==
    [op |-> "none", inst |-> 0, stream |-> <<>>, safe |-> FALSE, autoescape |-> FALSE,
     value |-> <<>>, markup |-> FALSE, error |-> FALSE, pre |-> {},
     bleach_arg |-> NoneArg, auto_escape |-> FALSE,
     cls |-> "", configs |-> "", returned |-> "", fwd_exts |-> <<>>, fwd_configs |-> ""]

\* mutant: the filters are registered before the engine is built
ConstructRegistersFirst(a, opts) ==
    /\ Len(instances) < MaxInst
    /\ filters' = RegisterFilters(filters, Len(instances) + 1)
    /\ IF EngineOk(opts)
       THEN /\ instances' = Append(instances,
                    [bleach_attributes |-> BuildPolicy(a), _instance |-> NewEngine,
                     auto_escape |-> opts.auto_escape])
            /\ ret' = [NoCall EXCEPT !.op = "construct", !.inst = Len(instances) + 1,
                                     !.bleach_arg = a, !.auto_escape = opts.auto_escape]
       ELSE /\ UNCHANGED instances
            /\ ret' = [NoCall EXCEPT !.op = "construct", !.error = TRUE,
                                     !.bleach_arg = a, !.auto_escape = opts.auto_escape]
    /\ UNCHANGED <<pc, arg, html, touched>>

\* Markdown.__init__(app, bleach_attributes, **markdown_options)
Construct(a, opts) ==
    /\ Len(instances) < MaxInst
    /\ IF EngineOk(opts)
       THEN /\ instances' = Append(instances,
                    [bleach_attributes |-> BuildPolicy(a), _instance |-> NewEngine,
                     auto_escape |-> opts.auto_escape])
            /\ filters' = RegisterFilters(filters, Len(instances) + 1)
            /\ ret' = [NoCall EXCEPT !.op = "construct", !.inst = Len(instances) + 1,
                                     !.bleach_arg = a, !.auto_escape = opts.auto_escape]
       ELSE /\ UNCHANGED <<instances, filters>>
            /\ ret' = [NoCall EXCEPT !.op = "construct", !.error = TRUE,
                                     !.bleach_arg = a, !.auto_escape = opts.auto_escape]
    /\ UNCHANGED <<pc, arg, html, touched>>

\* mutant: reset() is not called
ResetSkipped(e) == e

\* self._instance.reset(), the first call of line 85
ResetStep(e) == MdReset(e)

\* mutant: convert without the reset
ConvertCallNoReset(self, stream, safe) ==
    LET r == MdConvert(self._instance, stream)
    IN  [engine |-> r.engine,
         html |-> IF ~safe THEN BleachClean(r.html, self.bleach_attributes) ELSE r.html]

\* mutant: the test on safe is inverted
ConvertCallInverted(self, stream, safe) ==
    LET r == MdConvert(MdReset(self._instance), stream)
    IN  [engine |-> r.engine,
         html |-> IF safe THEN BleachClean(r.html, self.bleach_attributes) ELSE r.html]

\* mutant: every conversion builds a new engine
ConvertCallNewEngine(self, stream, safe) ==
    LET r == MdConvert(NewEngine, stream)
    IN  [engine |-> r.engine,
         html |-> IF ~safe THEN BleachClean(r.html, self.bleach_attributes) ELSE r.html]

\* Markdown.convert(stream, safe=False): the engine is reset, the stream is
\* converted, and the result is bleached unless the caller says it is safe
ConvertCall(self, stream, safe) ==
    LET r == MdConvert(ResetStep(self._instance), stream)
    IN  [engine |-> r.engine,
         html |-> IF ~safe THEN BleachClean(r.html, self.bleach_attributes) ELSE r.html]

\* Markdown.markdown(eval_ctx, stream): Markup(self.convert(stream))
MarkdownCall(self, eval_ctx, stream) == ConvertCall(self, stream, FALSE)

\* mutant: safe_markdown leaves safe at its default
SafeMarkdownCallDefault(self, eval_ctx, stream) == ConvertCall(self, stream, FALSE)

\* Markdown.safe_markdown(eval_ctx, stream): Markup(self.convert(stream, safe=True))
SafeMarkdownCall(self, eval_ctx, stream) == ConvertCall(self, stream, TRUE)

\* Markdown.register_extension(ext_cls, configs)
RegisterExtensionCall(self, ext_cls, configs) ==
    LET instance == [cls |-> ext_cls, args |-> <<>>]
    IN  [engine |-> MdRegisterExtensions(self._instance, <<instance>>, configs),
         fwd_exts |-> <<instance>>, fwd_configs |-> configs,
         returned |-> ext_cls]

\* mutant: the decorator does not pass configs on
ExtendCallNoConfigs(self, configs, ext_cls) == RegisterExtensionCall(self, ext_cls, "None")

\* Markdown.extend(configs) applied to a class: decorator(ext_cls)
ExtendCall(self, configs, ext_cls) == RegisterExtensionCall(self, ext_cls, configs)

\* a direct call of convert on instance i
Convert(S, i, stream, safe) ==
    /\ i \in 1..Len(instances)
    /\ stream \in S
    /\ LET r == ConvertCall(instances[i], stream, safe)
       IN  /\ instances' = [instances EXCEPT ![i]._instance = r.engine]
           /\ ret' = [NoCall EXCEPT !.op = "convert", !.inst = i, !.stream = stream,
                                    !.safe = safe, !.value = r.html,
                                    !.pre = instances[i]._instance.references]
    /\ UNCHANGED <<filters, pc, arg, html, touched>>

\* the template engine invokes the filter registered under 'markdown'
MarkdownFilter(S, autoescape, stream) ==
    /\ filters["markdown"] # 0
    /\ stream \in S
    /\ LET i == filters["markdown"]
           r == MarkdownCall(instances[i], autoescape, stream)
       IN  /\ instances' = [instances EXCEPT ![i]._instance = r.engine]
           /\ ret' = [NoCall EXCEPT !.op = "markdown", !.inst = i, !.stream = stream,
                                    !.autoescape = autoescape, !.value = r.html,
                                    !.markup = TRUE,
                                    !.pre = instances[i]._instance.references]
    /\ UNCHANGED <<filters, pc, arg, html, touched>>

\* the template engine invokes the filter registered under 'safe_markdown'
SafeMarkdownFilter(S, autoescape, stream) ==
    /\ filters["safe_markdown"] # 0
    /\ stream \in S
    /\ LET i == filters["safe_markdown"]
           r == SafeMarkdownCall(instances[i], autoescape, stream)
       IN  /\ instances' = [instances EXCEPT ![i]._instance = r.engine]
           /\ ret' = [NoCall EXCEPT !.op = "safe_markdown", !.inst = i, !.stream = stream,
                                    !.autoescape = autoescape, !.value = r.html,
                                    !.markup = TRUE,
                                    !.pre = instances[i]._instance.references]
    /\ UNCHANGED <<filters, pc, arg, html, touched>>

\* md.register_extension(ext_cls, configs)
RegisterExtension(i, ext_cls, configs) ==
    /\ i \in 1..Len(instances)
    /\ Len(instances[i]._instance.registeredExtensions) < MaxExt
    /\ LET r == RegisterExtensionCall(instances[i], ext_cls, configs)
       IN  /\ instances' = [instances EXCEPT ![i]._instance = r.engine]
           /\ ret' = [NoCall EXCEPT !.op = "register_extension", !.inst = i,
                                    !.cls = ext_cls, !.configs = configs,
                                    !.returned = r.returned, !.fwd_exts = r.fwd_exts,
                                    !.fwd_configs = r.fwd_configs]
    /\ UNCHANGED <<filters, pc, arg, html, touched>>

\* @md.extend(configs) class ext_cls(Extension): ...
Extend(i, configs, ext_cls) ==
    /\ i \in 1..Len(instances)
    /\ Len(instances[i]._instance.registeredExtensions) < MaxExt
    /\ LET r == ExtendCall(instances[i], configs, ext_cls)
       IN  /\ instances' = [instances EXCEPT ![i]._instance = r.engine]
           /\ ret' = [NoCall EXCEPT !.op = "extend", !.inst = i,
                                    !.cls = ext_cls, !.configs = configs,
                                    !.returned = r.returned, !.fwd_exts = r.fwd_exts,
                                    !.fwd_configs = r.fwd_configs]
    /\ UNCHANGED <<filters, pc, arg, html, touched>>

(* ---- two threads rendering templates that use the markdown filter ----- *)
\* Each thread runs markdown -> convert(stream) on the instance registered
\* under 'markdown'; reset(), convert() and bleach.clean() are separate
\* calls, and a thread switch can fall between any two of them.
Mark(t) == [u \in Threads |-> IF u # t /\ pc[u] = "convert" THEN TRUE ELSE touched[u]]

Call(t, stream) ==
    /\ pc[t] = "idle"
    /\ filters["markdown"] # 0
    /\ pc' = [pc EXCEPT ![t] = "reset"]
    /\ arg' = [arg EXCEPT ![t] = stream]
    /\ html' = [html EXCEPT ![t] = <<>>]
    /\ touched' = [touched EXCEPT ![t] = FALSE]
    /\ UNCHANGED <<instances, filters, ret>>

StepReset(t) ==
    /\ pc[t] = "reset"
    /\ LET i == filters["markdown"]
       IN  instances' = [instances EXCEPT ![i]._instance = ResetStep(@)]
    /\ pc' = [pc EXCEPT ![t] = "convert"]
    /\ touched' = Mark(t)
    /\ UNCHANGED <<filters, ret, arg, html>>

StepConvert(t) ==
    /\ pc[t] = "convert"
    /\ LET i == filters["markdown"]
           r == MdConvert(instances[i]._instance, arg[t])
       IN  /\ instances' = [instances EXCEPT ![i]._instance = r.engine]
           /\ html' = [html EXCEPT ![t] = r.html]
    /\ pc' = [pc EXCEPT ![t] = "clean"]
    /\ touched' = Mark(t)
    /\ UNCHANGED <<filters, ret, arg>>

StepClean(t) ==
    /\ pc[t] = "clean"
    /\ LET i == filters["markdown"]
       IN  html' = [html EXCEPT ![t] = BleachClean(@, instances[i].bleach_attributes)]
    /\ pc' = [pc EXCEPT ![t] = "return"]
    /\ UNCHANGED <<instances, filters, ret, arg, touched>>

Return(t) ==
    /\ pc[t] = "return"
    /\ pc' = [pc EXCEPT ![t] = "idle"]
    /\ arg' = [arg EXCEPT ![t] = <<>>]
    /\ html' = [html EXCEPT ![t] = <<>>]
    /\ touched' = [touched EXCEPT ![t] = FALSE]
    /\ UNCHANGED <<instances, filters, ret>>

(* --------------------------- specifications ---------------------------- *)
Idle ==
    /\ pc = [t \in Threads |-> "idle"]
    /\ arg = [t \in Threads |-> <<>>]
    /\ html = [t \in Threads |-> <<>>]
    /\ touched = [t \in Threads |-> FALSE]

Built(a) == [bleach_attributes |-> BuildPolicy(a), _instance |-> NewEngine, auto_escape |-> FALSE]

\* a fresh application: nothing constructed yet
Init ==
    /\ instances = <<>>
    /\ filters = [n \in FilterNames |-> 0]
    /\ ret = NoCall
    /\ Idle

\* construction, the filter table and the filters
Next ==
    \/ \E a \in BleachArgs, opts \in OptionArgs : Construct(a, opts)
    \/ \E c \in BOOLEAN, s \in FilterStreams : MarkdownFilter(FilterStreams, c, s)
    \/ \E c \in BOOLEAN, s \in FilterStreams : SafeMarkdownFilter(FilterStreams, c, s)
    \/ \E i \in 1..MaxInst, s \in FilterStreams, safe \in BOOLEAN : Convert(FilterStreams, i, s, safe)

Spec == Init /\ [][Next]_vars

\* after  Markdown(app); Markdown(app, bleach_attributes={'attributes': ...})
InitTwo ==
    /\ instances = <<Built(NoneArg), Built(AttrsOnly)>>
    /\ filters = RegisterFilters(RegisterFilters([n \in FilterNames |-> 0], 1), 2)
    /\ ret = NoCall
    /\ Idle

\* sequential conversions of documents that define and use references
NextConv ==
    \/ \E s \in ConvStreams : MarkdownFilter(ConvStreams, FALSE, s)
    \/ \E s \in ConvStreams : SafeMarkdownFilter(ConvStreams, FALSE, s)
    \/ \E i \in 1..2, s \in ConvStreams, safe \in BOOLEAN : Convert(ConvStreams, i, s, safe)

SpecConv == InitTwo /\ [][NextConv]_vars

\* extension registration interleaved with conversions
NextExt ==
    \/ \E i \in 1..2, c \in ExtClasses, g \in ConfigArgs : RegisterExtension(i, c, g)
    \/ \E i \in 1..2, c \in ExtClasses, g \in ConfigArgs : Extend(i, g, c)
    \/ \E s \in ExtStreams : MarkdownFilter(ExtStreams, FALSE, s)
    \/ \E s \in ExtStreams : SafeMarkdownFilter(ExtStreams, FALSE, s)
    \/ \E i \in 1..2, s \in ExtStreams, safe \in BOOLEAN : Convert(ExtStreams, i, s, safe)

SpecExt == InitTwo /\ [][NextExt]_vars

\* after  Markdown(app)
InitOne ==
    /\ instances = <<Built(NoneArg)>>
    /\ filters = RegisterFilters([n \in FilterNames |-> 0], 1)
    /\ ret = NoCall
    /\ Idle

NextConc ==
    \/ \E t \in Threads, s \in ConcStreams : Call(t, s)
    \/ \E t \in Threads : StepReset(t)
    \/ \E t \in Threads : StepConvert(t)
    \/ \E t \in Threads : StepClean(t)
    \/ \E t \in Threads : Return(t)

SpecConc == InitOne /\ [][NextConc]_vars

(* ------------------------------ properties ----------------------------- *)
FilterOps == {"markdown", "safe_markdown"}
ConvOps == {"convert", "markdown", "safe_markdown"}
RegOps == {"register_extension", "extend"}

\* what the engine makes of a stream when it starts from reset state, with
\* the extensions the instance has installed
RawHtml(self, stream) ==
    MdConvert([references |-> {},
               registeredExtensions |-> self._instance.registeredExtensions], stream).html
Sanitized(self, stream) == BleachClean(RawHtml(self, stream), self.bleach_attributes)
LiveTags(h) == {h[i].n : i \in {j \in 1..Len(h) : h[j].k = "tag"}}
HasTok(stream, tok) == \E i \in 1..Len(stream) : stream[i] = tok

\* C1 (as claimed): once instances have been constructed, both filter
\* entries belong to the instance constructed last, and every filter
\* invocation is served by it.
C1_LastWriteWins ==
    Len(instances) >= 1 =>
        /\ \A n \in FilterNames : filters[n] = Len(instances)
        /\ ret.op \in FilterOps => ret.inst = Len(instances)

\* C1 (amended): both filter entries belong to the instance constructed
\* first; a later construction leaves them alone, and every filter
\* invocation is served by the first instance.
C1_FirstRegistrationWins ==
    Len(instances) >= 1 =>
        /\ \A n \in FilterNames : filters[n] = 1
        /\ ret.op \in FilterOps => ret.inst = 1

C1_Witness ==
    /\ Len(instances) = 2
    /\ ret.op = "safe_markdown"
    /\ ret.inst = 1

\* C2 (as claimed): what safe_markdown returns is the sanitizer's output
\* for the converted HTML under the instance's policy.
C2_SafeFilterSanitizes ==
    ret.op = "safe_markdown" => ret.value = Sanitized(instances[ret.inst], ret.stream)

\* C2 (amended): safe_markdown calls convert with safe=True, which turns
\* the sanitizer off: it returns the raw converter output, as Markup.
C2_SafeFilterReturnsRaw ==
    ret.op = "safe_markdown" =>
        /\ ret.value = RawHtml(instances[ret.inst], ret.stream)
        /\ ret.markup

C2_Witness ==
    /\ ret.op = "safe_markdown"
    /\ HasTok(ret.stream, "script")
    /\ "script" \in LiveTags(ret.value)

\* C3: a convert that is asked to sanitize (safe false) returns the
\* sanitizer's result for the engine's HTML under the instance's policy,
\* with no live tag outside the allowed tags and no script or iframe tag;
\* a convert that is not (safe true) returns the engine's HTML unchanged.
C3_ConvertSanitizesOnRequest ==
    ret.op = "convert" =>
        LET self == instances[ret.inst]
        IN  IF ~ret.safe
            THEN /\ ret.value = Sanitized(self, ret.stream)
                 /\ LiveTags(ret.value) \subseteq AllowedTags(self.bleach_attributes)
                 /\ LiveTags(ret.value) \cap {"script", "iframe"} = {}
            ELSE ret.value = RawHtml(self, ret.stream)

C3_Witness ==
    /\ ret.op = "convert"
    /\ ~ret.safe
    /\ HasTok(ret.stream, "script")
    /\ LiveTags(ret.value) = {}
    /\ \E i \in 1..Len(ret.value) : ret.value[i].k = "esc" /\ ret.value[i].n = "script"

\* C5 (as claimed): every default key is present in every instance's
\* policy, and a construction whose overrides do not name the tags leaves
\* the default tag list in force.
C5_DefaultsLayered ==
    /\ \A i \in 1..Len(instances) : "tags" \in DOMAIN instances[i].bleach_attributes
    /\ (ret.op = "construct" /\ ~ret.error /\ "tags" \notin DOMAIN ret.bleach_arg.dict)
          => AllowedTags(instances[ret.inst].bleach_attributes) = MARKDOWN_TAGS

\* C5 (amended): the policy is the caller's mapping alone when one is given
\* and not empty, and the default {'tags': MARKDOWN_TAGS} otherwise; nothing
\* is merged, so overrides that do not name the tags leave the policy
\* without a tags key and the sanitizer's own default tags apply.
C5_OverridesReplaceDefaults ==
    (ret.op = "construct" /\ ~ret.error) =>
        LET policy == instances[ret.inst].bleach_attributes
            a == ret.bleach_arg
        IN  /\ (a.given /\ DOMAIN a.dict # {}) => policy = a.dict
            /\ ~(a.given /\ DOMAIN a.dict # {}) => policy = [tags |-> MARKDOWN_TAGS]
            /\ "tags" \notin DOMAIN policy => AllowedTags(policy) = BLEACH_ALLOWED_TAGS

C5_Witness ==
    /\ ret.op = "construct"
    /\ ~ret.error
    /\ ret.bleach_arg = AttrsOnly
    /\ DOMAIN instances[ret.inst].bleach_attributes = {"attributes"}

\* C8 (as claimed): on an instance constructed with auto_escape=True the
\* markdown filter escapes its input when autoescape is on in the
\* evaluation context; otherwise the input is converted unescaped.
C8_ObeysAutoescape ==
    ret.op = "markdown" =>
        LET self == instances[ret.inst]
        IN  IF self.auto_escape /\ ret.autoescape
            THEN ret.value = Sanitized(self, Escape(ret.stream))
            ELSE ret.value = Sanitized(self, ret.stream)

\* C10: a construction that fails in building the engine raises, and
\* leaves the filter table and the constructed instances as they were.
C10_FailedConstructLeavesFilters ==
    [][(ret'.op = "construct" /\ ret'.error)
          => (filters' = filters /\ instances' = instances)]_vars

C10_Witness ==
    /\ ret.op = "construct"
    /\ ret.error
    /\ \A n \in FilterNames : filters[n] = 0

\* C4: in a sequential series of convert and filter calls, what a call
\* returns is what a freshly reset engine with the instance's extensions
\* makes of that call's stream alone, and the references it leaves in the
\* engine are those its own stream defines.
C4_NoLeakBetweenConversions ==
    ret.op \in ConvOps =>
        LET self == instances[ret.inst]
        IN  /\ ret.value = IF ret.op = "markdown" \/ (ret.op = "convert" /\ ~ret.safe)
                           THEN Sanitized(self, ret.stream)
                           ELSE RawHtml(self, ret.stream)
            /\ self._instance.references = IF HasDef(ret.stream) THEN {RefId} ELSE {}

\* a reference link converted on an engine that still held the previous
\* document's definition comes out unresolved
C4_Witness ==
    /\ ret.op = "safe_markdown"
    /\ ret.pre = {RefId}
    /\ ret.stream = <<"ref">>
    /\ ret.value = <<Elem("tag", "p", "", "[x]")>>

IsPrefix(a, b) == Len(a) <= Len(b) /\ \A i \in 1..Len(a) : a[i] = b[i]

\* C6: register_extension and the extend decorator both build one instance
\* of the class with no arguments, hand exactly that instance and configs
\* to the engine, whose extension list grows by that instance, leave every
\* other instance alone, and return the class.
C6_RegisterForwardsAndReturnsClass ==
    [][(ret'.op \in RegOps /\ instances' # instances) =>
          LET i == ret'.inst
              instance == [cls |-> ret'.cls, args |-> <<>>]
          IN  /\ ret'.fwd_exts = <<instance>>
              /\ ret'.fwd_configs = ret'.configs
              /\ ret'.returned = ret'.cls
              /\ instances' = [instances EXCEPT ![i]._instance.registeredExtensions =
                                                    Append(@, instance)]]_vars

C6_Witness ==
    /\ ret.op = "extend"
    /\ ret.cls = "MacroExt"
    /\ ret.configs = "cfg"
    /\ ret.returned = "MacroExt"
    /\ ret.fwd_configs = "cfg"
    /\ Len(instances[ret.inst]._instance.registeredExtensions) = 2

\* C7: no step removes or reorders an installed extension (each engine's
\* extension list only grows at its end), a registration leaves the other
\* instance untouched, and every conversion of the extension's syntax
\* expands it exactly when the converting instance has the extension.
C7_ExtensionsStayInstalled ==
    /\ [][/\ Len(instances') = Len(instances)
          /\ \A i \in 1..Len(instances) :
                IsPrefix(instances[i]._instance.registeredExtensions,
                         instances'[i]._instance.registeredExtensions)
          /\ (ret'.op \in RegOps /\ instances' # instances) =>
                \A j \in 1..Len(instances) : j # ret'.inst => instances'[j] = instances[j]]_vars
    /\ [](ret.op \in ConvOps =>
            \A k \in 1..Len(ret.stream) : ret.stream[k] = "macro" =>
                (ret.value[k].t = "expanded") = MacroInstalled(instances[ret.inst]._instance))

C7_Witness ==
    /\ ret.op = "markdown"
    /\ ret.stream = <<"macro">>
    /\ ret.value = <<Elem("tag", "p", "", "expanded")>>
    /\ Len(instances[1]._instance.registeredExtensions) = 2
    /\ instances[2]._instance.registeredExtensions = <<>>

\* C9: a markdown filter call returns something other than what its own
\* stream yields on a reset engine only if another thread used the engine
\* between that call's reset() and its convert(); and such a call exists
\* (the witness).
IsolatedFilterOutput(stream) == Sanitized(instances[filters["markdown"]], stream)
Corrupted(t) == pc[t] = "return" /\ html[t] # IsolatedFilterOutput(arg[t])

C9_CorruptionOnlyByInterleaving ==
    \A t \in Threads : Corrupted(t) => touched[t]

C9_Witness ==
    \E t \in Threads :
        /\ Corrupted(t)
        /\ touched[t]
        /\ arg[t] = <<"ref">>
        /\ html[t] = <<Elem("tag", "a", "url", "x")>>
====
